---------------------------- MODULE Spec2Model ----------------------------
(***************************************************************************)
(* The 'forget' command of restic (src/cmds/restic/cmd_forget.go):         *)
(* CmdForget.Execute as a state machine over a snapshot store, together    *)
(* with the collaborators it calls (repository lock, index, snapshot       *)
(* lookup and listing, the expire policy).                                 *)
(***************************************************************************)
EXTENDS Integers, Sequences, FiniteSets, TLC

(***************************************************************************)
(* Bounds of the model.                                                    *)
(***************************************************************************)
\* longest list of snapshot IDs given on the command line
MaxArgs == 2
\* largest value of a --keep-* count
MaxCount == 1

(***************************************************************************)
(* Strings that the code takes apart or joins (snapshot IDs, paths) are    *)
(* sequences of characters; strings it only compares are TLA+ strings.     *)
(***************************************************************************)
Min(a, b) == IF a < b THEN a ELSE b

IsPrefix(p, s) == Len(p) <= Len(s) /\ SubSeq(s, 1, Len(p)) = p

\* the elements of a sequence
Range(s) == { s[n] : n \in 1..Len(s) }

\* the subsequence of the elements of s that are in set
RECURSIVE SelectIn(_, _)
SelectIn(s, set) ==
    IF s = << >> THEN << >>
    ELSE IF Head(s) \in set THEN << Head(s) >> \o SelectIn(Tail(s), set)
    ELSE SelectIn(Tail(s), set)

(***************************************************************************)
(* The repository's snapshots: ID, time <<year, month, day, hour, minute>>,*)
(* hostname, ordered paths, ordered tags.                                  *)
(***************************************************************************)
PathA  == << "/", "a" >>
PathB  == << "/", "b" >>
PathAB == << "/", "a", ":", "/", "b" >>

Repository ==
    { [ID |-> << "a", "b" >>, Time |-> << 2017, 1, 2, 10, 0 >>, Hostname |-> "h1",
       Paths |-> << PathA >>, Tags |-> << "pin", "t1", "t2" >>],
      [ID |-> << "b", "a" >>, Time |-> << 2017, 1, 1, 10, 30 >>, Hostname |-> "h1",
       Paths |-> << PathA >>, Tags |-> << "t1" >>],
      [ID |-> << "b", "b" >>, Time |-> << 2016, 12, 31, 23, 0 >>, Hostname |-> "h1",
       Paths |-> << PathA >>, Tags |-> << "t2", "t1" >>],
      [ID |-> << "c", "a" >>, Time |-> << 2017, 1, 1, 10, 30 >>, Hostname |-> "h2",
       Paths |-> << PathAB >>, Tags |-> << "t1", "t2" >>],
      [ID |-> << "c", "b" >>, Time |-> << 2017, 1, 1, 10, 30 >>, Hostname |-> "h2",
       Paths |-> << PathA, PathB >>, Tags |-> << >>],
      [ID |-> << "d", "a" >>, Time |-> << 2016, 12, 31, 8, 0 >>, Hostname |-> "h2",
       Paths |-> << >>, Tags |-> << "pin" >>] }

IDs == { sn.ID : sn \in Repository }

\* the snapshot stored under an ID
Snapshot(id) == CHOOSE sn \in Repository : sn.ID = id

\* the identifiers and prefixes a user may give on the command line
Prefixes == { << "a", "b" >>, << "b", "a" >>, << "b" >> }


\* the order in which the backend lists snapshot files
ListOrder == << << "a", "b" >>, << "b", "a" >>, << "b", "b" >>,
                << "c", "a" >>, << "c", "b" >>, << "d", "a" >> >>

RECURSIVE Reverse(_)
Reverse(s) == IF s = << >> THEN << >> ELSE Reverse(Tail(s)) \o << Head(s) >>

(***************************************************************************)
(* Calendar buckets of a timestamp.                                        *)
(***************************************************************************)
\* days since 1970-01-01 of a civil date
DaysFromCivil(y, m, d) ==
    LET yy  == IF m <= 2 THEN y - 1 ELSE y
        era == yy \div 400
        yoe == yy - era * 400
        mp  == (m + 9) % 12
        doy == (153 * mp + 2) \div 5 + d - 1
        doe == yoe * 365 + yoe \div 4 - yoe \div 100 + doy
    IN  era * 146097 + doe - 719468

\* ISO 8601 year and week number of a timestamp
ISOWeek(t) ==
    LET days     == DaysFromCivil(t[1], t[2], t[3])
        weekday  == (days + 3) % 7
        thursday == days - weekday + 3
        year     == CHOOSE y \in (t[1] - 1)..(t[1] + 1) :
                        /\ DaysFromCivil(y, 1, 1) <= thursday
                        /\ thursday < DaysFromCivil(y + 1, 1, 1)
    IN  << year, (thursday - DaysFromCivil(year, 1, 1)) \div 7 + 1 >>

Granularities == { "Hourly", "Daily", "Weekly", "Monthly", "Yearly" }

\* the calendar period of granularity g that contains timestamp t
Bucket(g, t) ==
    CASE g = "Hourly"  -> << t[1], t[2], t[3], t[4] >>
      [] g = "Daily"   -> << t[1], t[2], t[3] >>
      [] g = "Weekly"  -> ISOWeek(t)
      [] g = "Monthly" -> << t[1], t[2] >>
      [] g = "Yearly"  -> << t[1] >>

\* timestamp a is later than timestamp b
RECURSIVE After(_, _)
After(a, b) ==
    IF a = << >> THEN FALSE
    ELSE IF Head(a) # Head(b) THEN Head(a) > Head(b)
    ELSE After(Tail(a), Tail(b))

(***************************************************************************)
(* Snapshot lookup, listing and tags.                                      *)
(***************************************************************************)
\* sn.HasTags(tags): the snapshot carries every tag of the list
HasTags(id, tags) == Range(tags) \subseteq Range(Snapshot(id).Tags)

\* restic.FindSnapshot: the one stored snapshot whose ID starts with s
FindSnapshot(stored, s) ==
    LET found == { id \in stored : IsPrefix(s, id) }
    IN  IF Cardinality(found) = 1
        THEN [id |-> CHOOSE id \in found : TRUE, err |-> "nil"]
        ELSE [id |-> << >>,
              err |-> IF found = {} THEN "NotFound" ELSE "AmbiguousID"]

\* restic.LoadAllSnapshots: the stored snapshots in the backend's order
LoadAllSnapshots(stored, order) == SelectIn(order, stored)

(***************************************************************************)
(* The expire policy.                                                      *)
(***************************************************************************)
\* policy.Empty(): no count and no tag is set
Empty(p) ==
    /\ p.Last = 0 /\ p.Hourly = 0 /\ p.Daily = 0
    /\ p.Weekly = 0 /\ p.Monthly = 0 /\ p.Yearly = 0
    /\ p.Tags = << >>

\* SortByTime leaving the list in the order it was given
SortByTimeUnsorted(list) == list

\* the list sorted by time, most recent first, equal times in the given order
RECURSIVE SortByTime(_)
SortByTime(list) ==
    IF list = << >> THEN << >>
    ELSE LET k == CHOOSE n \in 1..Len(list) :
                    /\ \A m \in 1..Len(list) :
                          ~After(Snapshot(list[m]).Time, Snapshot(list[n]).Time)
                    /\ \A m \in 1..(n - 1) :
                          Snapshot(list[m]).Time # Snapshot(list[n]).Time
         IN  << list[k] >>
             \o SortByTime(SubSeq(list, 1, k - 1) \o SubSeq(list, k + 1, Len(list)))

\* tag pass: the snapshots carrying at least one of the policy's tags
TagKept(list, p) ==
    { id \in Range(list) : Range(Snapshot(id).Tags) \cap Range(p.Tags) # {} }

\* one bucketed pass: walking newest first, the first snapshot of each
\* bucket not yet consumed, while the pass has counts left
RECURSIVE BucketPass(_, _, _, _)
BucketPass(g, list, count, consumed) ==
    IF list = << >> \/ count <= 0 THEN {}
    ELSE LET b == Bucket(g, Snapshot(Head(list)).Time)
         IN  IF b \in consumed
             THEN BucketPass(g, Tail(list), count, consumed)
             ELSE { Head(list) }
                  \cup BucketPass(g, Tail(list), count - 1, consumed \cup { b })

\* restic.ApplyPolicy: the snapshots of list to keep and to remove
ApplyPolicy(list, p) ==
    LET sorted    == SortByTime(list)
        tagged    == TagKept(sorted, p)
        rest      == SelectIn(sorted, Range(sorted) \ tagged)
        last      == Range(SubSeq(rest, 1, Min(p.Last, Len(rest))))
        remaining == SelectIn(rest, Range(rest) \ last)
        bucketed  == UNION { BucketPass(g, remaining, p[g], {}) : g \in Granularities }
        kept      == tagged \cup last \cup bucketed
    IN  [keep   |-> SelectIn(sorted, kept),
         remove |-> SelectIn(sorted, Range(sorted) \ kept)]


(***************************************************************************)
(* The command: its options, its arguments and the state of one run of     *)
(* Execute.                                                                *)
(***************************************************************************)
VARIABLES
    cmd,             \* the CmdForget options
    args,            \* the snapshot IDs given as arguments
    store,           \* the IDs of the snapshot files in the backend
    lockHeld,        \* the repository is locked exclusively
    lock,            \* the handle lockRepoExclusive returned
    pc,              \* the position of Execute
    i,               \* the index of the argument processed next
    snapshots,       \* the snapshots LoadAllSnapshots returned
    snapshotGroups,  \* the map from key to the group's snapshots
    todo,            \* the keys the range over snapshotGroups has yet to visit
    key,             \* the key of the group being processed
    keep,            \* the snapshots the policy keeps in that group
    remove,          \* the snapshots the policy removes from that group
    j,               \* the index in remove of the snapshot removed next
    err,             \* the error Execute returned
    calls,           \* the calls made to the repository, in order
    verbose,         \* the lines written with Verbosef
    stdout           \* the group reports written to stdout

vars == << cmd, args, store, lockHeld, lock, pc, i, snapshots, snapshotGroups,
           todo, key, keep, remove, j, err, calls, verbose, stdout >>

Counts == 0..MaxCount

\* the option values explored: every flag of CmdForget; --keep-last is
\* combined with at most one of the five bucketed counts in a run
Commands ==
    { c \in [Last : Counts, Hourly : Counts, Daily : Counts, Weekly : Counts,
             Monthly : Counts, Yearly : Counts,
             KeepTags : { << >>, << "pin" >> },
             Hostname : { "", "h1" },
             Tags : { << >>, << "t1", "t2" >> },
             DryRun : BOOLEAN] :
        Cardinality({ g \in Granularities : c[g] # 0 }) <= 1 }

ArgLists == UNION { [1..n -> Prefixes] : n \in 0..MaxArgs }

NoLock  == << >>
TheLock == << "l", "o", "c", "k" >>
NoKey   == [Hostname |-> "", Dirs |-> << >>]

\* one call to a collaborator, with its argument and whether it succeeded
Call(op, arg, ok) == [op |-> op, arg |-> arg, ok |-> ok]

Init ==
    /\ cmd \in Commands
    /\ args \in ArgLists
    /\ store = IDs
    /\ lockHeld = FALSE
    /\ lock = NoLock
    /\ pc = "open"
    /\ i = 1
    /\ snapshots = << >>
    /\ snapshotGroups = << >>
    /\ todo = {}
    /\ key = NoKey
    /\ keep = << >>
    /\ remove = << >>
    /\ j = 1
    /\ err = "nil"
    /\ calls = << >>
    /\ verbose = << >>
    /\ stdout = << >>

\* unlockRepo(handle): releases the lock the handle stands for
Unlocked(handle) == IF handle = NoLock THEN lockHeld ELSE FALSE

\* Returns with the unlock left out when an error is returned
ReturnsUnlockingOnSuccessOnly(e, log, handle) ==
    /\ pc' = "done"
    /\ err' = e
    /\ calls' = IF e = "nil" THEN log \o << Call("unlockRepo", handle, TRUE) >> ELSE log
    /\ lockHeld' = IF e = "nil" THEN Unlocked(handle) ELSE lockHeld

\* a return of Execute after the defer statement: the deferred unlockRepo
\* runs with the handle, then the caller gets e
Returns(e, log, handle) ==
    /\ pc' = "done"
    /\ err' = e
    /\ calls' = log \o << Call("unlockRepo", handle, TRUE) >>
    /\ lockHeld' = Unlocked(handle)

\* DoRemove with the dry-run flag ignored
DoRemoveAlways == TRUE

\* if !cmd.DryRun
DoRemove == ~cmd.DryRun

\* Policy with the --keep-tag tags left out
PolicyWithoutTags ==
    [Last |-> cmd.Last, Hourly |-> cmd.Hourly, Daily |-> cmd.Daily,
     Weekly |-> cmd.Weekly, Monthly |-> cmd.Monthly, Yearly |-> cmd.Yearly,
     Tags |-> << >>]

\* restic.ExpirePolicy{...} built from the options
Policy ==
    [Last |-> cmd.Last, Hourly |-> cmd.Hourly, Daily |-> cmd.Daily,
     Weekly |-> cmd.Weekly, Monthly |-> cmd.Monthly, Yearly |-> cmd.Yearly,
     Tags |-> cmd.KeepTags]

\* strings.Join(elems, sep)
RECURSIVE Join(_, _)
Join(elems, sep) ==
    IF elems = << >> THEN << >>
    ELSE IF Len(elems) = 1 THEN elems[1]
    ELSE elems[1] \o sep \o Join(Tail(elems), sep)

\* Selected with the --hostname filter ignored
SelectedIgnoringHostname(id) == HasTags(id, cmd.Tags)

\* the snapshot passes the --hostname and --tag filters
Selected(id) ==
    /\ ~(cmd.Hostname # "" /\ Snapshot(id).Hostname # cmd.Hostname)
    /\ HasTags(id, cmd.Tags)

\* key{Hostname: sn.Hostname, Dirs: strings.Join(sn.Paths, ":")}
KeyOf(id) ==
    [Hostname |-> Snapshot(id).Hostname, Dirs |-> Join(Snapshot(id).Paths, << ":" >>)]

\* the map built by the grouping loop over the loaded snapshots
Grouped(list) ==
    LET sel == SelectIn(list, { id \in Range(list) : Selected(id) })
    IN  [k \in { KeyOf(id) : id \in Range(sel) } |->
            SelectIn(sel, { id \in Range(sel) : KeyOf(id) = k })]

\* GroupOf with the snapshots kept in the group before it carried over
GroupOfWithEarlierKept(k) == keep \o snapshotGroups[k]

\* GroupOf yielding every loaded snapshot instead of the group
GroupOfAll(k) == snapshots

\* the group the range over snapshotGroups yields for key k
GroupOf(k) == snapshotGroups[k]

\* the rows printSnapshots appends to its table
RECURSIVE ContinuationRows(_, _, _)
ContinuationRows(sn, n, rows) ==
    IF n >= rows THEN << >>
    ELSE << << << >>, << >>, "", IF Len(sn.Tags) > n THEN sn.Tags[n + 1] ELSE "",
               IF Len(sn.Paths) > n THEN sn.Paths[n + 1] ELSE << >> >> >>
         \o ContinuationRows(sn, n + 1, rows)

RECURSIVE printSnapshots(_)
printSnapshots(list) ==
    IF list = << >> THEN << >>
    ELSE LET sn   == Snapshot(Head(list))
             rows == IF Len(sn.Tags) > Len(sn.Paths) THEN Len(sn.Tags) ELSE Len(sn.Paths)
         IN  IF Len(sn.Paths) = 0 THEN printSnapshots(Tail(list))
             ELSE << << sn.ID, sn.Time, sn.Hostname,
                        IF Len(sn.Tags) > 0 THEN sn.Tags[1] ELSE "", sn.Paths[1] >> >>
                  \o ContinuationRows(sn, 1, rows)
                  \o printSnapshots(Tail(list))

\* what Execute prints for one group
Report(k, res) ==
    [Hostname |-> k.Hostname, Dirs |-> k.Dirs,
     nkeep |-> Len(res.keep), keep |-> printSnapshots(res.keep),
     nremove |-> Len(res.remove), remove |-> printSnapshots(res.remove)]

(***************************************************************************)
(* Execute, one action per step.  A returning step includes the deferred   *)
(* unlockRepo.                                                             *)
(***************************************************************************)
\* repo, err := cmd.global.OpenRepository(); no defer is registered yet
OpenRepository ==
    /\ pc = "open"
    /\ \/ /\ pc' = "lock"
          /\ calls' = calls \o << Call("OpenRepository", << >>, TRUE) >>
          /\ UNCHANGED err
       \/ /\ pc' = "done"
          /\ err' = "OpenError"
          /\ calls' = calls \o << Call("OpenRepository", << >>, FALSE) >>
    /\ UNCHANGED << cmd, args, store, lockHeld, lock, i, snapshots, snapshotGroups,
                    todo, key, keep, remove, j, verbose, stdout >>

\* LockRepoExclusive going on to the index when the lock was not acquired
LockRepoExclusiveIgnoringError ==
    /\ pc = "lock"
    /\ \/ /\ lock' = TheLock
          /\ lockHeld' = TRUE
          /\ calls' = calls \o << Call("lockRepoExclusive", << >>, TRUE) >>
       \/ /\ lock' = NoLock
          /\ lockHeld' = lockHeld
          /\ calls' = calls \o << Call("lockRepoExclusive", << >>, FALSE) >>
    /\ pc' = "index"
    /\ UNCHANGED << cmd, args, store, i, snapshots, snapshotGroups,
                    todo, key, keep, remove, j, err, verbose, stdout >>

\* LockRepoExclusive with the defer registered after the error check
LockRepoExclusiveDeferAfterCheck ==
    /\ pc = "lock"
    /\ \/ /\ lock' = TheLock
          /\ lockHeld' = TRUE
          /\ pc' = "index"
          /\ calls' = calls \o << Call("lockRepoExclusive", << >>, TRUE) >>
          /\ UNCHANGED err
       \/ /\ lock' = NoLock
          /\ lockHeld' = lockHeld
          /\ pc' = "done"
          /\ err' = "LockError"
          /\ calls' = calls \o << Call("lockRepoExclusive", << >>, FALSE) >>
    /\ UNCHANGED << cmd, args, store, i, snapshots, snapshotGroups,
                    todo, key, keep, remove, j, verbose, stdout >>

\* lock, err := lockRepoExclusive(repo); defer unlockRepo(lock)
LockRepoExclusive ==
    /\ pc = "lock"
    /\ \/ /\ lock' = TheLock
          /\ lockHeld' = TRUE
          /\ pc' = "index"
          /\ calls' = calls \o << Call("lockRepoExclusive", << >>, TRUE) >>
          /\ UNCHANGED err
       \/ /\ lock' = NoLock
          /\ Returns("LockError",
                     calls \o << Call("lockRepoExclusive", << >>, FALSE) >>, NoLock)
    /\ UNCHANGED << cmd, args, store, i, snapshots, snapshotGroups,
                    todo, key, keep, remove, j, verbose, stdout >>

\* LoadIndex going on to the arguments when the index was not loaded
LoadIndexIgnoringError ==
    /\ pc = "index"
    /\ \E loaded \in BOOLEAN :
          calls' = calls \o << Call("LoadIndex", << >>, loaded) >>
    /\ pc' = "args"
    /\ UNCHANGED << cmd, args, store, lockHeld, lock, i, snapshots, snapshotGroups,
                    todo, key, keep, remove, j, err, verbose, stdout >>

\* err = repo.LoadIndex()
LoadIndex ==
    /\ pc = "index"
    /\ \/ /\ pc' = "args"
          /\ calls' = calls \o << Call("LoadIndex", << >>, TRUE) >>
          /\ UNCHANGED << err, lockHeld >>
       \/ Returns("IndexError", calls \o << Call("LoadIndex", << >>, FALSE) >>, lock)
    /\ UNCHANGED << cmd, args, store, lock, i, snapshots, snapshotGroups,
                    todo, key, keep, remove, j, verbose, stdout >>

\* ArgUnresolved going on with the next argument instead of returning
ArgUnresolvedSkipped(found, log) ==
    /\ calls' = log
    /\ i' = i + 1
    /\ UNCHANGED << store, verbose, pc, err, lockHeld >>

\* an argument that does not resolve: return err
ArgUnresolved(found, log) ==
    /\ Returns(found.err, log, lock)
    /\ UNCHANGED << store, i, verbose >>

\* ArgRemoved sparing a snapshot that carries a --keep-tag tag
ArgRemovedUnlessTagged(found, log) ==
    IF Range(Snapshot(found.id).Tags) \cap Range(cmd.KeepTags) # {}
    THEN /\ calls' = log
         /\ i' = i + 1
         /\ UNCHANGED << store, verbose, pc, err, lockHeld >>
    ELSE /\ store' = store \ { found.id }
         /\ calls' = log \o << Call("Remove", found.id, TRUE) >>
         /\ verbose' = verbose \o << << "removed snapshot", found.id >> >>
         /\ i' = i + 1
         /\ UNCHANGED << pc, err, lockHeld >>

\* repo.Backend().Remove succeeded for the argument's snapshot
ArgRemoved(found, log) ==
    /\ store' = store \ { found.id }
    /\ calls' = log \o << Call("Remove", found.id, TRUE) >>
    /\ verbose' = verbose \o << << "removed snapshot", found.id >> >>
    /\ i' = i + 1
    /\ UNCHANGED << pc, err, lockHeld >>

\* repo.Backend().Remove failed for the argument's snapshot: return err
ArgRemoveFailed(found, log) ==
    /\ Returns("RemoveError", log \o << Call("Remove", found.id, FALSE) >>, lock)
    /\ UNCHANGED << store, i, verbose >>

\* dry run: only say what would be removed
ArgWouldRemove(found, log) ==
    /\ calls' = log
    /\ verbose' = verbose \o << << "would removed snapshot", found.id >> >>
    /\ i' = i + 1
    /\ UNCHANGED << store, pc, err, lockHeld >>

\* one iteration of the loop over args: find the snapshot, then remove it
\* or say that it would be removed
ForgetArg ==
    /\ pc = "args"
    /\ i <= Len(args)
    /\ LET found == FindSnapshot(store, args[i])
           log   == calls \o << Call("FindSnapshot", args[i], found.err = "nil") >>
       IN  IF found.err # "nil" THEN ArgUnresolved(found, log)
           ELSE IF DoRemove THEN ArgRemoved(found, log) \/ ArgRemoveFailed(found, log)
           ELSE ArgWouldRemove(found, log)
    /\ UNCHANGED << cmd, args, lock, snapshots, snapshotGroups,
                    todo, key, keep, remove, j, stdout >>

\* CheckPolicy without the return on an empty policy
CheckPolicyWithoutReturn ==
    /\ pc = "args"
    /\ i > Len(args)
    /\ pc' = "load"
    /\ UNCHANGED << cmd, args, store, lockHeld, lock, i, snapshots, snapshotGroups,
                    todo, key, keep, remove, j, err, calls, verbose, stdout >>

\* the loop over args is over: if policy.Empty() { return nil }
CheckPolicy ==
    /\ pc = "args"
    /\ i > Len(args)
    /\ IF Empty(Policy)
       THEN Returns("nil", calls, lock)
       ELSE /\ pc' = "load"
            /\ UNCHANGED << err, calls, lockHeld >>
    /\ UNCHANGED << cmd, args, store, lock, i, snapshots, snapshotGroups,
                    todo, key, keep, remove, j, verbose, stdout >>

\* snapshots, err := restic.LoadAllSnapshots(repo)
LoadSnapshots ==
    /\ pc = "load"
    /\ \/ \E order \in { ListOrder, Reverse(ListOrder) } :
             /\ snapshots' = LoadAllSnapshots(store, order)
             /\ calls' = calls \o << Call("LoadAllSnapshots", << >>, TRUE) >>
             /\ pc' = "group"
             /\ UNCHANGED << err, lockHeld >>
       \/ /\ Returns("ListError",
                     calls \o << Call("LoadAllSnapshots", << >>, FALSE) >>, lock)
          /\ UNCHANGED snapshots
    /\ UNCHANGED << cmd, args, store, lock, i, snapshotGroups,
                    todo, key, keep, remove, j, verbose, stdout >>

\* the loop that filters the snapshots and groups them by hostname and dirs
GroupSnapshots ==
    /\ pc = "group"
    /\ snapshotGroups' = Grouped(snapshots)
    /\ todo' = DOMAIN snapshotGroups'
    /\ pc' = "groups"
    /\ UNCHANGED << cmd, args, store, lockHeld, lock, i, snapshots,
                    key, keep, remove, j, err, calls, verbose, stdout >>

\* one iteration of the range over snapshotGroups, up to the removals:
\* apply the policy to the group and print what is kept and removed
ProcessGroup ==
    /\ pc = "groups"
    /\ \E k \in todo :
          LET res == ApplyPolicy(GroupOf(k), Policy)
          IN  /\ key' = k
              /\ keep' = res.keep
              /\ remove' = res.remove
              /\ stdout' = stdout \o << Report(k, res) >>
              /\ todo' = todo \ { k }
              /\ j' = 1
              /\ pc' = IF DoRemove /\ res.remove # << >> THEN "remove" ELSE "groups"
    /\ UNCHANGED << cmd, args, store, lockHeld, lock, i, snapshots, snapshotGroups,
                    err, calls, verbose >>

\* GroupRemoveFailed trying the same snapshot again instead of returning
GroupRemoveFailedRetried ==
    /\ calls' = calls \o << Call("Remove", remove[j], FALSE) >>
    /\ UNCHANGED << pc, j, store, err, lockHeld >>

\* GroupRemoveFailed going on with the next snapshot instead of returning
GroupRemoveFailedIgnored ==
    /\ calls' = calls \o << Call("Remove", remove[j], FALSE) >>
    /\ j' = j + 1
    /\ pc' = IF j + 1 > Len(remove) THEN "groups" ELSE "remove"
    /\ UNCHANGED << store, err, lockHeld >>

\* repo.Backend().Remove failed for a snapshot of remove: return err
GroupRemoveFailed ==
    /\ Returns("RemoveError", calls \o << Call("Remove", remove[j], FALSE) >>, lock)
    /\ UNCHANGED << store, j >>

\* one iteration of the loop over remove
RemoveSnapshot ==
    /\ pc = "remove"
    /\ \/ /\ store' = store \ { remove[j] }
          /\ calls' = calls \o << Call("Remove", remove[j], TRUE) >>
          /\ j' = j + 1
          /\ pc' = IF j + 1 > Len(remove) THEN "groups" ELSE "remove"
          /\ UNCHANGED << err, lockHeld >>
       \/ GroupRemoveFailed
    /\ UNCHANGED << cmd, args, lock, i, snapshots, snapshotGroups,
                    todo, key, keep, remove, verbose, stdout >>

\* every group was processed: return nil
Finish ==
    /\ pc = "groups"
    /\ todo = {}
    /\ Returns("nil", calls, lock)
    /\ UNCHANGED << cmd, args, store, lock, i, snapshots, snapshotGroups,
                    todo, key, keep, remove, j, verbose, stdout >>

Next ==
    \/ OpenRepository
    \/ LockRepoExclusive
    \/ LoadIndex
    \/ ForgetArg
    \/ CheckPolicy
    \/ LoadSnapshots
    \/ GroupSnapshots
    \/ ProcessGroup
    \/ RemoveSnapshot
    \/ Finish

Spec == Init /\ [][Next]_vars

(***************************************************************************)
(* What a run did, read from its calls and its output.                     *)
(***************************************************************************)
\* the positions in calls of the calls to op
CallsTo(op) == { n \in 1..Len(calls) : calls[n].op = op }

\* LoadAllSnapshots was called before position n: call n is of the policy phase
InPolicyPhase(n) == \E m \in CallsTo("LoadAllSnapshots") : m < n

\* the snapshot list was loaded and grouped
GroupingDone ==
    \/ pc \in { "groups", "remove" }
    \/ pc = "done" /\ \E n \in CallsTo("LoadAllSnapshots") : calls[n].ok

\* the IDs whose removal from the backend succeeded
RemovedIDs == { calls[n].arg : n \in { m \in CallsTo("Remove") : calls[m].ok } }

\* the IDs that have a row in a table of some group report
ReportedIDs ==
    UNION { { r[1] : r \in Range(stdout[n].keep) \cup Range(stdout[n].remove) } :
            n \in 1..Len(stdout) }

\* the IDs that are in some group of the map
GroupedIDs == UNION { Range(snapshotGroups[k]) : k \in DOMAIN snapshotGroups }

\* the snapshot carries one of the --keep-tag tags
CarriesKeepTag(id) == Range(Snapshot(id).Tags) \cap Range(cmd.KeepTags) # {}

(***************************************************************************)
(* C1                                                                      *)
(***************************************************************************)
\* C1: in a dry run Remove is never called and the store holds the
\* snapshots it held when Execute was entered.
C1_DryRunNeverRemoves ==
    cmd.DryRun => CallsTo("Remove") = {} /\ store = IDs

\* a dry run that named a snapshot, reported a group with snapshots to
\* remove and returned nil
C1_Witness ==
    /\ cmd.DryRun
    /\ pc = "done" /\ err = "nil"
    /\ \E n \in 1..Len(verbose) : verbose[n][1] = "would removed snapshot"
    /\ \E n \in 1..Len(stdout) : stdout[n].nremove > 0

(***************************************************************************)
(* C2                                                                      *)
(***************************************************************************)
\* C2: once lockRepoExclusive succeeded the lock stays held until Execute
\* returns, and every return (nil, index, lookup, removal, listing error)
\* has released it with exactly one unlockRepo, its last call.
C2_LockReleasedOnEveryReturn ==
    (\E n \in CallsTo("lockRepoExclusive") : calls[n].ok) =>
        IF pc = "done"
        THEN /\ ~lockHeld
             /\ Cardinality(CallsTo("unlockRepo")) = 1
             /\ calls[Len(calls)] = Call("unlockRepo", TheLock, TRUE)
             /\ err \in { "nil", "IndexError", "NotFound", "AmbiguousID",
                          "RemoveError", "ListError" }
        ELSE lockHeld /\ CallsTo("unlockRepo") = {}

\* a return with the error of a removal of the policy phase
C2_Witness ==
    /\ pc = "done" /\ err = "RemoveError"
    /\ stdout # << >>
    /\ ~lockHeld
    /\ \E n \in CallsTo("lockRepoExclusive") : calls[n].ok

(***************************************************************************)
(* C3                                                                      *)
(***************************************************************************)
\* C3: the keep and remove lists of the group being processed are disjoint,
\* hold no snapshot twice, and together hold exactly the group's snapshots.
C3_KeepRemovePartitionGroup ==
    key # NoKey =>
        /\ Range(keep) \cap Range(remove) = {}
        /\ Range(keep) \cup Range(remove) = Range(snapshotGroups[key])
        /\ Len(keep) + Len(remove) = Len(snapshotGroups[key])
        /\ Cardinality(Range(snapshotGroups[key])) = Len(snapshotGroups[key])

\* a group of three snapshots split into a non-empty keep and remove list,
\* with another group in the map
C3_Witness ==
    /\ key # NoKey
    /\ Len(snapshotGroups[key]) = 3
    /\ keep # << >> /\ remove # << >>
    /\ Cardinality(DOMAIN snapshotGroups) > 1

(***************************************************************************)
(* C4                                                                      *)
(***************************************************************************)
\* C4: every snapshot of the processed group that carries a --keep-tag tag
\* is kept, whatever the counts; the other kept snapshots are those the
\* counts alone keep among the group's untagged snapshots (a tagged
\* snapshot takes no slot); the policy phase never removes a tagged one.
C4_KeepTagsAlwaysKept ==
    /\ key # NoKey =>
          LET group    == snapshotGroups[key]
              tagged   == { id \in Range(group) : CarriesKeepTag(id) }
              untagged == SelectIn(group, Range(group) \ tagged)
              counts   == [Last |-> cmd.Last, Hourly |-> cmd.Hourly,
                           Daily |-> cmd.Daily, Weekly |-> cmd.Weekly,
                           Monthly |-> cmd.Monthly, Yearly |-> cmd.Yearly,
                           Tags |-> << >>]
          IN  /\ tagged \subseteq Range(keep)
              /\ Range(keep) \ tagged = Range(ApplyPolicy(untagged, counts).keep)
    /\ \A n \in CallsTo("Remove") : InPolicyPhase(n) => ~CarriesKeepTag(calls[n].arg)

\* --keep-last 1 --keep-tag pin on the group whose newest snapshot is
\* tagged: the tagged one and the newest untagged one are kept, the third
\* was removed
C4_Witness ==
    /\ cmd.KeepTags # << >> /\ cmd.Last = 1
    /\ key = [Hostname |-> "h1", Dirs |-> PathA]
    /\ keep = << << "a", "b" >>, << "b", "a" >> >>
    /\ << "b", "b" >> \notin store
    /\ pc = "done" /\ err = "nil"

(***************************************************************************)
(* C5                                                                      *)
(***************************************************************************)
\* C5: a Remove that fails in the policy phase ends the run with that
\* error at once: it is the last call before the unlock and is not retried,
\* the remaining snapshots of the group and the groups not yet visited are
\* neither reported nor removed, and what was removed before stays removed.
C5_PolicyRemoveFailureStops ==
    \A n \in CallsTo("Remove") :
        ~calls[n].ok /\ InPolicyPhase(n) =>
            /\ pc = "done" /\ err = "RemoveError"
            /\ n = Len(calls) - 1
            /\ calls[n].arg = remove[j]
            /\ \A m \in CallsTo("Remove") :
                  m # n => calls[m].ok /\ calls[m].arg # calls[n].arg
            /\ store = IDs \ RemovedIDs
            /\ \A m \in 1..Len(remove) : remove[m] \in store <=> m >= j
            /\ Len(stdout) = Cardinality(DOMAIN snapshotGroups) - Cardinality(todo)
            /\ \A k \in todo :
                  /\ \A r \in 1..Len(stdout) :
                        << stdout[r].Hostname, stdout[r].Dirs >> # << k.Hostname, k.Dirs >>
                  /\ Range(snapshotGroups[k]) \subseteq store
                  /\ \A m \in CallsTo("Remove") :
                        calls[m].arg \notin Range(snapshotGroups[k])

\* the second removal of a group fails after an explicit removal and the
\* removals of an earlier group succeeded, with a group still to visit
C5_Witness ==
    /\ pc = "done" /\ err = "RemoveError"
    /\ j = 2
    /\ Len(stdout) = 2
    /\ todo # {}
    /\ verbose # << >>
    /\ Cardinality(RemovedIDs) >= 3

(***************************************************************************)
(* C6                                                                      *)
(***************************************************************************)
\* C6: when FindSnapshot fails for argument i, Execute returns its error at
\* once: nothing is removed for it or a later argument, the snapshot list
\* is not loaded and no group is evaluated; a run that is not a dry run has
\* removed exactly the snapshots of arguments 1..i-1, a dry run nothing.
C6_UnresolvedArgumentStops ==
    \A n \in CallsTo("FindSnapshot") :
        ~calls[n].ok =>
            /\ pc = "done" /\ err \in { "NotFound", "AmbiguousID" }
            /\ n = Len(calls) - 1
            /\ i \in 1..Len(args) /\ calls[n].arg = args[i]
            /\ CallsTo("LoadAllSnapshots") = {}
            /\ snapshots = << >> /\ key = NoKey /\ stdout = << >>
            /\ store = IDs \ RemovedIDs
            /\ IF cmd.DryRun
               THEN CallsTo("Remove") = {}
               ELSE /\ Cardinality(CallsTo("Remove")) = i - 1
                    /\ \A k \in 1..(i - 1) :
                          /\ calls[2 * k + 2] = Call("FindSnapshot", args[k], TRUE)
                          /\ calls[2 * k + 3].op = "Remove"
                          /\ calls[2 * k + 3].ok
                          /\ IsPrefix(args[k], calls[2 * k + 3].arg)
                          /\ calls[2 * k + 3].arg \notin store

\* the second argument names the snapshot the first one removed
C6_Witness ==
    /\ pc = "done" /\ err = "NotFound"
    /\ i = 2
    /\ store = IDs \ { << "a", "b" >> }

(***************************************************************************)
(* C7                                                                      *)
(***************************************************************************)
\* C7: with all counts 0 and no --keep-tag, Execute never loads the
\* snapshot list and evaluates no group, whatever the filters are; every
\* Remove is the one of an argument just resolved; once all arguments are
\* processed it returns nil; without arguments the store is not changed.
C7_EmptyPolicyStopsAfterArgs ==
    ( /\ cmd.Last = 0 /\ cmd.Hourly = 0 /\ cmd.Daily = 0 /\ cmd.Weekly = 0
      /\ cmd.Monthly = 0 /\ cmd.Yearly = 0 /\ cmd.KeepTags = << >> ) =>
        /\ pc \in { "open", "lock", "index", "args", "done" }
        /\ CallsTo("LoadAllSnapshots") = {}
        /\ snapshots = << >> /\ key = NoKey /\ stdout = << >>
        /\ \A n \in CallsTo("Remove") :
              /\ n > 1
              /\ calls[n - 1].op = "FindSnapshot" /\ calls[n - 1].ok
              /\ calls[n - 1].arg \in Range(args)
              /\ IsPrefix(calls[n - 1].arg, calls[n].arg)
        /\ store = IDs \ RemovedIDs
        /\ ( /\ pc = "done" /\ i > Len(args)
             /\ \E n \in CallsTo("LoadIndex") : calls[n].ok ) => err = "nil"
        /\ args = << >> => CallsTo("Remove") = {} /\ store = IDs

\* an empty policy with both filters set: the named snapshot was removed
\* and Execute returned nil
C7_Witness ==
    /\ Empty(Policy)
    /\ cmd.Hostname # "" /\ cmd.Tags # << >>
    /\ pc = "done" /\ err = "nil"
    /\ RemovedIDs # {}

(***************************************************************************)
(* C8                                                                      *)
(***************************************************************************)
\* C8: a snapshot whose hostname differs from a set --hostname, or that
\* lacks one of the --tag tags, is in no group, is neither kept, reported
\* nor removed by the policy phase; every other loaded snapshot is in
\* exactly one group.
C8_FilteredSnapshotsUntouched ==
    LET Excluded(id) ==
            \/ cmd.Hostname # "" /\ Snapshot(id).Hostname # cmd.Hostname
            \/ \E t \in Range(cmd.Tags) : t \notin Range(Snapshot(id).Tags)
    IN  /\ \A id \in IDs :
              Excluded(id) =>
                  /\ id \notin GroupedIDs
                  /\ id \notin Range(keep) \cup Range(remove)
                  /\ id \notin ReportedIDs
                  /\ \A n \in CallsTo("Remove") : InPolicyPhase(n) => calls[n].arg # id
        /\ GroupingDone =>
              \A id \in Range(snapshots) :
                  ~Excluded(id) =>
                      Cardinality({ k \in DOMAIN snapshotGroups :
                                      id \in Range(snapshotGroups[k]) }) = 1

\* --hostname h1 --tag t1 --tag t2 --keep-last 1: of the two snapshots
\* that pass, the older one was removed; the third of h1 lacks t2 and stays
C8_Witness ==
    /\ cmd.Hostname = "h1" /\ cmd.Tags # << >>
    /\ args = << >>
    /\ pc = "done" /\ err = "nil"
    /\ store = IDs \ { << "b", "b" >> }

(***************************************************************************)
(* C9                                                                      *)
(***************************************************************************)
\* C9: two grouped snapshots are in the same group if and only if they
\* have the same hostname and the same sequence of paths.
C9_SameGroupIffSameHostAndPaths ==
    GroupingDone =>
        \A a \in GroupedIDs, b \in GroupedIDs :
            (\E k \in DOMAIN snapshotGroups : { a, b } \subseteq Range(snapshotGroups[k]))
                <=> /\ Snapshot(a).Hostname = Snapshot(b).Hostname
                    /\ Snapshot(a).Paths = Snapshot(b).Paths

C11_LockFailureStops ==
    \A n \in CallsTo("lockRepoExclusive") :
        ~calls[n].ok =>
            /\ pc = "done" /\ err = "LockError"
            /\ CallsTo("LoadIndex") = {}
            /\ CallsTo("FindSnapshot") = {}
            /\ CallsTo("LoadAllSnapshots") = {}
            /\ CallsTo("Remove") = {}
            /\ store = IDs
            /\ snapshots = << >> /\ verbose = << >> /\ stdout = << >>

\* the lock is refused to a run that has arguments and a policy and is
\* not a dry run
C11_Witness ==
    /\ pc = "done" /\ err = "LockError"
    /\ args # << >> /\ ~Empty(Policy) /\ ~cmd.DryRun
    /\ \E n \in CallsTo("lockRepoExclusive") : ~calls[n].ok

(***************************************************************************)
(* C15                                                                     *)
(***************************************************************************)
\* C15: every FindSnapshot, LoadAllSnapshots and Remove comes after a
\* successful lockRepoExclusive and a successful LoadIndex and before the
\* unlockRepo; when LoadIndex fails Execute returns its error without any
\* of them.
C15_StoreCallsUnderLockAndIndex ==
    /\ \A n \in CallsTo("FindSnapshot") \cup CallsTo("LoadAllSnapshots")
                    \cup CallsTo("Remove") :
          /\ \E m \in CallsTo("lockRepoExclusive") : m < n /\ calls[m].ok
          /\ \E m \in CallsTo("LoadIndex") : m < n /\ calls[m].ok
          /\ \A m \in CallsTo("unlockRepo") : n < m
    /\ \A n \in CallsTo("LoadIndex") :
          ~calls[n].ok =>
              /\ pc = "done" /\ err = "IndexError"
              /\ n = Len(calls) - 1
              /\ CallsTo("FindSnapshot") = {}
              /\ CallsTo("LoadAllSnapshots") = {}
              /\ CallsTo("Remove") = {}
              /\ store = IDs

\* a finished run that resolved an argument, listed the snapshots and
\* removed snapshots in both phases
C15_Witness ==
    /\ pc = "done" /\ err = "nil"
    /\ CallsTo("FindSnapshot") # {}
    /\ CallsTo("LoadAllSnapshots") # {}
    /\ \E n \in CallsTo("Remove") : InPolicyPhase(n)
    /\ \E n \in CallsTo("Remove") : ~InPolicyPhase(n)
    /\ CallsTo("unlockRepo") = { Len(calls) }

(***************************************************************************)
(* C19                                                                     *)
(***************************************************************************)
\* C19: when lockRepoExclusive fails, unlockRepo is still called, exactly
\* once and right after it, with the handle the failed call returned; when
\* OpenRepository fails neither lockRepoExclusive nor unlockRepo is called.
C19_UnlockDeferredBeforeErrorCheck ==
    /\ \A n \in CallsTo("lockRepoExclusive") :
          ~calls[n].ok =>
              /\ lock = NoLock
              /\ CallsTo("unlockRepo") = { n + 1 }
              /\ Len(calls) = n + 1
              /\ calls[n + 1].arg = lock
              /\ pc = "done" /\ err = "LockError"
              /\ ~lockHeld
    /\ \A n \in CallsTo("OpenRepository") :
          ~calls[n].ok =>
              /\ pc = "done" /\ err = "OpenError"
              /\ CallsTo("lockRepoExclusive") = {}
              /\ CallsTo("unlockRepo") = {}
              /\ Len(calls) = 1

\* the lock was refused and unlockRepo was called with the nil handle
C19_Witness ==
    /\ pc = "done" /\ err = "LockError"
    /\ calls[Len(calls)] = Call("unlockRepo", NoLock, TRUE)

(***************************************************************************)
(* C14                                                                     *)
(***************************************************************************)
\* C14: the keep and remove lists of a group are those of the policy
\* applied to that group alone; a run that returns nil has reported every
\* group once and has removed exactly the snapshots named by arguments
\* and the remove lists of the groups of the loaded snapshots, whatever
\* the order in which the groups were visited.
C14_GroupsEvaluatedIndependently ==
    LET groups   == Grouped(snapshots)
        result(k) == ApplyPolicy(groups[k], Policy)
        explicit == { calls[n].arg :
                        n \in { m \in CallsTo("Remove") : calls[m].ok /\ ~InPolicyPhase(m) } }
        policed  == UNION { Range(result(k).remove) : k \in DOMAIN groups }
    IN  /\ key # NoKey =>
              /\ key \in DOMAIN groups
              /\ keep = result(key).keep
              /\ remove = result(key).remove
        /\ (pc = "done" /\ err = "nil" /\ GroupingDone) =>
              /\ Range(snapshots) = IDs \ explicit
              /\ Len(stdout) = Cardinality(DOMAIN groups)
              /\ Range(stdout) = { Report(k, result(k)) : k \in DOMAIN groups }
              /\ store = IF cmd.DryRun THEN IDs ELSE (IDs \ explicit) \ policed

\* a run that visited a group of h2, then the group of h1, then the other
\* group of h2, removed snapshots and returned nil
C14_Witness ==
    /\ pc = "done" /\ err = "nil" /\ ~cmd.DryRun
    /\ Len(stdout) = 3
    /\ stdout[1].Hostname = "h2" /\ stdout[2].Hostname = "h1"
    /\ Cardinality(RemovedIDs) >= 2

(***************************************************************************)
(* C18                                                                     *)
(***************************************************************************)
\* C18: no two Remove calls of a run name the same snapshot.
C18_RemoveOncePerSnapshot ==
    \A n \in CallsTo("Remove"), m \in CallsTo("Remove") :
        calls[n].arg = calls[m].arg => n = m

\* a snapshot the policy would have removed was named as an argument: it
\* was removed once, and the policy removed the next one of its group
C18_Witness ==
    /\ pc = "done" /\ err = "nil" /\ ~cmd.DryRun
    /\ args = << << "b", "a" >> >>
    /\ cmd.Last = 1 /\ cmd.KeepTags = << >> /\ cmd.Hostname = ""
    /\ { << "b", "a" >>, << "b", "b" >> } \subseteq RemovedIDs
    /\ Cardinality({ n \in CallsTo("Remove") : calls[n].arg = << "b", "a" >> }) = 1

(***************************************************************************)
(* The evaluation of one group taken alone: the statement                  *)
(* keep, remove := restic.ApplyPolicy(list, policy) of the loop over the   *)
(* groups, for every policy and every list of snapshots.  ApplyPolicy      *)
(* reads only the time and the tags of a snapshot, so the lists are all    *)
(* the sublists of the repository's listing, in both listing orders.       *)
(***************************************************************************)
MaxLast == 2

\* the policies explored: --keep-last and --keep-tag combined with at most
\* two of the five bucketed counts, whose passes do not depend on each other
PolicyCommands ==
    { c \in [Last : 0..MaxLast, Hourly : Counts, Daily : Counts, Weekly : Counts,
             Monthly : Counts, Yearly : Counts,
             KeepTags : { << >>, << "pin" >> },
             Hostname : { "" }, Tags : { << >> }, DryRun : { TRUE }] :
        Cardinality({ g \in Granularities : c[g] # 0 }) <= 2 }

\* the lists a group can hold
GroupLists ==
    { SelectIn(order, S) : order \in { ListOrder, Reverse(ListOrder) },
                           S \in SUBSET IDs }

InitPolicy ==
    /\ cmd \in PolicyCommands
    /\ args = << >>
    /\ store = IDs
    /\ lockHeld = TRUE
    /\ lock = TheLock
    /\ pc = "evaluate"
    /\ i = 1
    /\ snapshots \in GroupLists
    /\ snapshotGroups = << >>
    /\ todo = {}
    /\ key = NoKey
    /\ keep = << >>
    /\ remove = << >>
    /\ j = 1
    /\ err = "nil"
    /\ calls = << >>
    /\ verbose = << >>
    /\ stdout = << >>

\* EvaluatePolicy with the two results assigned the other way round
EvaluatePolicySwapped ==
    /\ pc = "evaluate"
    /\ LET res == ApplyPolicy(snapshots, Policy)
       IN  /\ keep' = res.remove
           /\ remove' = res.keep
    /\ pc' = "evaluated"
    /\ UNCHANGED << cmd, args, store, lockHeld, lock, i, snapshots, snapshotGroups,
                    todo, key, j, err, calls, verbose, stdout >>

\* keep, remove := restic.ApplyPolicy(list, policy)
EvaluatePolicy ==
    /\ pc = "evaluate"
    /\ LET res == ApplyPolicy(snapshots, Policy)
       IN  /\ keep' = res.keep
           /\ remove' = res.remove
    /\ pc' = "evaluated"
    /\ UNCHANGED << cmd, args, store, lockHeld, lock, i, snapshots, snapshotGroups,
                    todo, key, j, err, calls, verbose, stdout >>

NextPolicy == EvaluatePolicy

SpecPolicy == InitPolicy /\ [][NextPolicy]_vars

\* the largest value explored for count f
CountLimit(f) == IF f = "Last" THEN MaxLast ELSE MaxCount

\* the policy with count f set to c
PolicyWith(f, c) == [Policy EXCEPT ![f] = c]

\* the positions of the list whose snapshot comes before the one at n when
\* the list is put most recent first, equal times in the order of the list
Preceding(list, n) ==
    { m \in 1..Len(list) :
        \/ After(Snapshot(list[m]).Time, Snapshot(list[n]).Time)
        \/ Snapshot(list[m]).Time = Snapshot(list[n]).Time /\ m < n }

(***************************************************************************)
(* C12                                                                     *)
(***************************************************************************)
\* C12: with no --keep-tag and --keep-last N the only non-zero count, the
\* keep list holds exactly the N most recent snapshots of the group, equal
\* times taken in the order of the list (the whole group when it has at
\* most N snapshots), and the remove list holds the rest.
C12_LastNKeepsMostRecent ==
    ( /\ pc = "evaluated"
      /\ cmd.KeepTags = << >>
      /\ cmd.Last > 0
      /\ \A g \in Granularities : cmd[g] = 0 ) =>
        LET recent == { snapshots[n] : n \in { m \in 1..Len(snapshots) :
                            Cardinality(Preceding(snapshots, m)) < cmd.Last } }
        IN  /\ Range(keep) = recent
            /\ Len(keep) = Cardinality(recent)
            /\ Len(keep) = Min(cmd.Last, Len(snapshots))
            /\ Range(remove) = Range(snapshots) \ recent
            /\ Len(remove) = Len(snapshots) - Len(keep)

\* a group of more than N snapshots with two of equal time, the later in
\* the list not kept, has been evaluated
C12_Witness ==
    /\ pc = "evaluated"
    /\ cmd.KeepTags = << >>
    /\ cmd.Last = 2
    /\ \A g \in Granularities : cmd[g] = 0
    /\ \E m, n \in 1..Len(snapshots) :
          /\ m < n
          /\ Snapshot(snapshots[m]).Time = Snapshot(snapshots[n]).Time
          /\ snapshots[m] \in Range(keep)
          /\ snapshots[n] \in Range(remove)

(***************************************************************************)
(* C13                                                                     *)
(***************************************************************************)
\* C13: raising one count of the policy (--keep-last or one of the five
\* bucketed counts), everything else equal, never takes a snapshot out of
\* the keep list of a group.
C13_RaisingACountKeepsMore ==
    pc = "evaluated" =>
        \A f \in { "Last" } \cup Granularities :
            \A c \in (cmd[f] + 1)..(CountLimit(f) + 1) :
                Range(keep) \subseteq
                    Range(ApplyPolicy(snapshots, PolicyWith(f, c)).keep)

\* a group evaluated under a policy with --keep-last and a bucketed count
\* that removes snapshots, where one more --keep-last takes over the
\* snapshot a bucketed pass kept and the pass then keeps one more snapshot
C13_Witness ==
    /\ pc = "evaluated"
    /\ cmd.Last > 0
    /\ \E g \in Granularities : cmd[g] > 0
    /\ remove # << >>
    /\ Range(keep) # Range(ApplyPolicy(snapshots, PolicyWith("Last", cmd.Last + 1)).keep)

(***************************************************************************)
(* C16                                                                     *)
(***************************************************************************)
\* what the loop over args of a run that is not a dry run leaves in the
\* store, when every Remove succeeds, and whether every argument resolved
RECURSIVE ForgetArgs(_, _)
ForgetArgs(stored, list) ==
    IF list = << >> THEN [ok |-> TRUE, stored |-> stored]
    ELSE LET found == FindSnapshot(stored, Head(list))
         IN  IF found.err # "nil" THEN [ok |-> FALSE, stored |-> stored]
             ELSE ForgetArgs(stored \ { found.id }, Tail(list))

\* C16: a dry run that returns nil names as "would remove" the snapshots
\* that the same run without --dry-run removes for its arguments, and its
\* group reports (keep and remove tables) are those of that run.
C16_DryRunReportsOutcome ==
    (cmd.DryRun /\ pc = "done" /\ err = "nil") =>
        LET real   == ForgetArgs(IDs, args)
            groups == Grouped(SelectIn(snapshots, real.stored))
        IN  real.ok =>
                /\ { verbose[n][2] : n \in 1..Len(verbose) } = IDs \ real.stored
                /\ Range(stdout) =
                       { Report(k, ApplyPolicy(groups[k], Policy)) : k \in DOMAIN groups }

(***************************************************************************)
(* C17                                                                     *)
(***************************************************************************)
\* C17: the report of the group being processed is printed before its
\* removals and has a row in its kept table for every kept snapshot and a
\* row in its removed table for every snapshot to remove; no snapshot is
\* removed by the policy phase without a row in a removed table.
C17_EverySnapshotHasRow ==
    /\ key # NoKey =>
          LET report == stdout[Len(stdout)]
          IN  /\ report.Hostname = key.Hostname /\ report.Dirs = key.Dirs
              /\ \A id \in Range(keep) : \E r \in Range(report.keep) : r[1] = id
              /\ \A id \in Range(remove) : \E r \in Range(report.remove) : r[1] = id
    /\ \A n \in CallsTo("Remove") :
          InPolicyPhase(n) =>
              \E m \in 1..Len(stdout) : \E r \in Range(stdout[m].remove) :
                  r[1] = calls[n].arg

=============================================================================
